---- MODULE Spec2Model ----
(***************************************************************************)
(* Model of the action filter Lambda (src/src/main.rs, src/src/domain.rs). *)
(* One request is decoded by filter_actions, handed to process_actions,    *)
(* which reads the clock once, applies the two date filters, deduplicates  *)
(* by entity_id through a HashMap, sorts by priority and returns.          *)
(* Instants are whole seconds since the epoch; a calendar date is the      *)
(* number of whole days since the epoch (DateTime::date_naive).            *)
(***************************************************************************)
EXTENDS Integers, Sequences, FiniteSets, TLC

\* ---------------------------------------------------------------- bounds
MaxLen == 2          \* longest request payload explored
MaxTicks == 1        \* how many seconds the clock may advance in a run
BaseDay == 20000     \* the UTC date on which the runs start

\* ------------------------------------------------------ program constants
SecsPerDay == 86400  \* chrono: Duration::days(1), date_naive()
Days90 == 90         \* Duration::days(90)
Days7 == 7           \* Duration::days(7)

Days(n) == n * SecsPerDay

\* DateTime<Utc>::date_naive(): the UTC calendar date of an instant
date_naive(t) == t \div SecsPerDay

\* chrono Duration::num_days(): whole days, truncated towards zero
num_days(d) == IF d >= 0 THEN d \div SecsPerDay ELSE -((-d) \div SecsPerDay)

\* the first instant of the runs: the last second of BaseDay
T0 == Days(BaseDay) + (SecsPerDay - 1)

\* ---------------------------------------------------------- domain types
\* enum Priority { Urgent, Normal } with the derived Ord (declaration order)
Priority == {"Urgent", "Normal"}

\* the variants declared in the other order
PriorityOrd_swapped(p) == IF p = "Normal" THEN 0 ELSE 1

PriorityOrd(p) == IF p = "Urgent" THEN 0 ELSE 1

\* a.priority.cmp(&b.priority) as used by sort_by: a sorts no later than b
PriorityLe(a, b) == PriorityOrd(a.priority) <= PriorityOrd(b.priority)

Entities == {"e1", "e2"}

LastTimes == {T0 - Days(8), T0 - Days(7), T0 - Days(7) + 1, T0 - Days(7) + 2}
NextTimes == {T0 + Days(90), T0 + Days(90) + 1, T0 + Days(90) + 2, T0 + Days(91)}
GoodLast == T0 - Days(8)
GoodNext == T0 + Days(90)

\* a record whose last_action_time is later than its next_action_time
InvertedPair == <<T0 - Days(7), T0 - Days(8)>>

TimePairs == (LastTimes \X {GoodNext}) \cup ({GoodLast} \X NextTimes) \cup {InvertedPair}

\* the wire form of a priority (serde rename_all = "lowercase")
WirePriorities == {"urgent", "normal"}
BadWirePriorities == {"URGENT", "unknown"}

Rec(e, l, n, p) ==
    [entity_id |-> e, last_action_time |-> l, next_action_time |-> n, priority |-> p]

\* request records as they arrive on the wire
GoodWire == {Rec(e, tp[1], tp[2], p) : e \in Entities, tp \in TimePairs, p \in WirePriorities}
BadWire == {Rec("e1", GoodLast, GoodNext, p) : p \in BadWirePriorities}
WireRecords == GoodWire \cup BadWire

SeqsUpTo(S, n) == UNION {[1..k -> S] : k \in 0..n}

Range(s) == {s[i] : i \in DOMAIN s}

\* ------------------------------------------------------------ conversions
\* a decoder that ignores the case of the variant name
DecodePriority_nocase(s) ==
    IF s \in {"urgent", "URGENT"} THEN "Urgent"
    ELSE IF s = "normal" THEN "Normal"
    ELSE "Err"

\* serde: Deserialize for Priority; "Err" is the unknown-variant error
DecodePriority(s) ==
    IF s = "urgent" THEN "Urgent"
    ELSE IF s = "normal" THEN "Normal"
    ELSE "Err"

\* serde: Serialize for Priority
EncodePriority(p) == IF p = "Urgent" THEN "urgent" ELSE "normal"

DecodeAction(w) ==
    Rec(w.entity_id, w.last_action_time, w.next_action_time, DecodePriority(w.priority))

EncodeAction(a) ==
    Rec(a.entity_id, a.last_action_time, a.next_action_time, EncodePriority(a.priority))

\* serde_json::from_value::<Vec<Action>> succeeds only if every record decodes
Decodable(value) == \A i \in DOMAIN value : DecodePriority(value[i].priority) # "Err"

from_value(value) == [i \in DOMAIN value |-> DecodeAction(value[i])]

\* json!(actions)
to_json(actions) == [i \in DOMAIN actions |-> EncodeAction(actions[i])]

\* -------------------------------------------------- process_actions parts
\* a threshold one day too far out
threshold_90_late(now) == date_naive(now + Days(Days90 + 1))

\* let threshold_90 = (today + Duration::days(90)).date_naive();
threshold_90_of(now) == date_naive(now + Days(Days90))

\* a threshold one day too far back
threshold_7_early(now) == date_naive(now - Days(Days7 + 1))

\* let threshold_7 = (today - Duration::days(7)).date_naive();
threshold_7_of(now) == date_naive(now - Days(Days7))

\* a 90-day filter that also rejects a record whose timestamps are inverted
KeepNext_ordered(a, t90) ==
    /\ date_naive(a.next_action_time) <= t90
    /\ a.last_action_time <= a.next_action_time

\* the 90-day filter with a strict comparison
KeepNext_strict(a, t90) == date_naive(a.next_action_time) < t90

\* .filter(|a| a.next_action_time.date_naive() <= threshold_90)
KeepNext(a, t90) == date_naive(a.next_action_time) <= t90

\* a 7-day filter that keeps only the single date just before the threshold
KeepLast_band(a, t7) ==
    /\ date_naive(a.last_action_time) < t7
    /\ date_naive(a.last_action_time) >= t7 - 1

\* the 7-day filter with a closed comparison
KeepLast_closed(a, t7) == date_naive(a.last_action_time) <= t7

\* .filter(|a| a.last_action_time.date_naive() < threshold_7)
KeepLast(a, t7) == date_naive(a.last_action_time) < t7

RECURSIVE FilterSeq(_, _, _)
RECURSIVE FilterSeq_offbyone(_, _, _)

RECURSIVE FilterSeq_lastonly(_, _, _)

\* a filter that looks only at the last record of each entity_id, as when
\* the duplicates are folded before the windows are applied
FilterSeq_lastonly(s, t90, t7) ==
    IF s = <<>> THEN <<>>
    ELSE LET rest == FilterSeq_lastonly(Tail(s), t90, t7)
         IN IF /\ KeepNext(Head(s), t90) /\ KeepLast(Head(s), t7)
               /\ \A i \in DOMAIN Tail(s) : Tail(s)[i].entity_id # Head(s).entity_id
            THEN <<Head(s)>> \o rest
            ELSE rest

\* a filter loop that stops one record short of the end
FilterSeq_offbyone(s, t90, t7) ==
    IF Len(s) <= 1 THEN <<>>
    ELSE LET rest == FilterSeq_offbyone(Tail(s), t90, t7)
         IN IF KeepNext(Head(s), t90) /\ KeepLast(Head(s), t7)
            THEN <<Head(s)>> \o rest
            ELSE rest

FilterSeq(s, t90, t7) ==
    IF s = <<>> THEN <<>>
    ELSE LET rest == FilterSeq(Tail(s), t90, t7)
         IN IF KeepNext(Head(s), t90) /\ KeepLast(Head(s), t7)
            THEN <<Head(s)>> \o rest
            ELSE rest

\* an insert that forgets the other keys
MapInsert_clobber(m, k, v) == [x \in {k} |-> v]

\* an insert that carries an Urgent priority over from the replaced record
MapInsert_escalate(m, k, v) ==
    [x \in (DOMAIN m) \cup {k} |->
        IF x = k
        THEN IF k \in DOMAIN m /\ m[k].priority = "Urgent"
             THEN [v EXCEPT !.priority = "Urgent"]
             ELSE v
        ELSE m[x]]

\* an insert that keeps the value already stored (entry().or_insert())
MapInsert_first(m, k, v) ==
    [x \in (DOMAIN m) \cup {k} |-> IF x \in DOMAIN m THEN m[x] ELSE v]

\* HashMap::insert: the new value replaces any value stored under the key
MapInsert(m, k, v) == [x \in (DOMAIN m) \cup {k} |-> IF x = k THEN v ELSE m[x]]

EmptyMap == [x \in {} |-> 0]

\* for action in &filtered { map.insert(action.entity_id.clone(), action); }
RECURSIVE DedupFrom(_, _)
DedupFrom(m, s) ==
    IF s = <<>> THEN m
    ELSE DedupFrom(MapInsert(m, Head(s).entity_id, Head(s)), Tail(s))

\* a collection step that fails on an empty map
ValueOrders_nonempty(m) ==
    LET n == Cardinality(DOMAIN m)
    IN {[i \in 1..n |-> m[ks[i]]] :
          ks \in {f \in [1..n -> DOMAIN m] :
                    n > 0 /\ \A i, j \in 1..n : i # j => f[i] # f[j]}}

\* the orders in which HashMap::into_values may yield the values of m
ValueOrders(m) ==
    LET n == Cardinality(DOMAIN m)
    IN {[i \in 1..n |-> m[ks[i]]] :
          ks \in {f \in [1..n -> DOMAIN m] : \A i, j \in 1..n : i # j => f[i] # f[j]}}

RECURSIVE InsertStable_before(_, _)

\* an insertion that puts a in front of the elements it compares equal to
InsertStable_before(s, a) ==
    IF s = <<>> THEN <<a>>
    ELSE IF PriorityOrd(Head(s).priority) < PriorityOrd(a.priority)
         THEN <<Head(s)>> \o InsertStable_before(Tail(s), a)
         ELSE <<a>> \o s

\* one step of a stable sort: a goes after every element that is not greater
RECURSIVE InsertStable(_, _)
InsertStable(s, a) ==
    IF s = <<>> THEN <<a>>
    ELSE IF PriorityLe(Head(s), a) THEN <<Head(s)>> \o InsertStable(Tail(s), a)
         ELSE <<a>> \o s

\* deduped.sort_by(|a, b| a.priority.cmp(&b.priority)): slice::sort_by is stable
RECURSIVE SortByPriority(_)
SortByPriority(s) ==
    IF s = <<>> THEN <<>>
    ELSE InsertStable(SortByPriority(SubSeq(s, 1, Len(s) - 1)), s[Len(s)])

\* ------------------------------------------------------------------ state
VARIABLES
    clock,        \* Utc::now(), seconds
    ticks,        \* seconds the clock has advanced so far
    pc,           \* position of the handler
    payload,      \* event.payload: the request as received
    input,        \* Vec<Action> decoded by filter_actions
    called,       \* process_actions has been entered for this request
    today,        \* process_actions: let today = Utc::now()
    threshold_90,
    threshold_7,
    filtered,
    map,
    deduped,
    response,     \* Ok(json!(actions)) as sent back
    result,       \* "none", "ok" or "err"
    resubmitted,  \* this request is the previous response sent back in
    prevOutput,   \* the caller's copy of the previous output
    prevToday     \* the evaluation instant of the previous call

vars == <<clock, ticks, pc, payload, input, called, today, threshold_90, threshold_7,
          filtered, map, deduped, response, result, resubmitted, prevOutput, prevToday>>

callVars == <<input, called, today, threshold_90, threshold_7, filtered, map, deduped,
              response, result>>

histVars == <<resubmitted, prevOutput, prevToday>>

Init ==
    /\ clock = T0
    /\ ticks = 0
    /\ pc = "idle"
    /\ payload = <<>>
    /\ input = <<>>
    /\ called = FALSE
    /\ today = 0
    /\ threshold_90 = 0
    /\ threshold_7 = 0
    /\ filtered = <<>>
    /\ map = EmptyMap
    /\ deduped = <<>>
    /\ response = <<>>
    /\ result = "none"
    /\ resubmitted = FALSE
    /\ prevOutput = <<>>
    /\ prevToday = 0

\* the wall clock advances by one second
Tick ==
    /\ ticks < MaxTicks
    /\ clock' = clock + 1
    /\ ticks' = ticks + 1
    /\ UNCHANGED <<pc, payload, callVars, histVars>>

ResetCall ==
    /\ input' = <<>>
    /\ called' = FALSE
    /\ today' = 0
    /\ threshold_90' = 0
    /\ threshold_7' = 0
    /\ filtered' = <<>>
    /\ map' = EmptyMap
    /\ deduped' = <<>>
    /\ response' = <<>>
    /\ result' = "none"

\* lambda_runtime::run hands the next event to filter_actions
Invoke ==
    /\ pc = "idle"
    /\ \E value \in SeqsUpTo(WireRecords, MaxLen) : payload' = value
    /\ pc' = "decode"
    /\ UNCHANGED <<clock, ticks, callVars, histVars>>

\* lambda_runtime::run has delivered the outcome and waits for the next event
Respond ==
    /\ pc \in {"done", "failed"}
    /\ pc' = "idle"
    /\ payload' = <<>>
    /\ ResetCall
    /\ resubmitted' = FALSE
    /\ prevOutput' = <<>>
    /\ prevToday' = 0
    /\ UNCHANGED <<clock, ticks>>

\* the caller sends the response of the previous call back in as a request
Resubmit ==
    /\ pc = "done"
    /\ payload' = response
    /\ pc' = "decode"
    /\ ResetCall
    /\ resubmitted' = TRUE
    /\ prevOutput' = deduped
    /\ prevToday' = today
    /\ UNCHANGED <<clock, ticks>>

\* let input: Vec<Action> = serde_json::from_value(value)?;
Decode ==
    /\ pc = "decode"
    /\ IF Decodable(payload)
       THEN /\ input' = from_value(payload)
            /\ pc' = "call"
            /\ UNCHANGED result
       ELSE /\ result' = "err"
            /\ pc' = "failed"
            /\ UNCHANGED input
    /\ UNCHANGED <<clock, ticks, payload, called, today, threshold_90, threshold_7,
                   filtered, map, deduped, response, histVars>>

\* process_actions: today, threshold_90, threshold_7
ReadClock ==
    /\ pc = "call"
    /\ called' = TRUE
    /\ today' = clock
    /\ threshold_90' = threshold_90_of(clock)
    /\ threshold_7' = threshold_7_of(clock)
    /\ pc' = "filter"
    /\ UNCHANGED <<clock, ticks, payload, input, filtered, map, deduped, response,
                   result, histVars>>

\* a filter that compares instants instead of calendar dates
Filter_instants ==
    /\ pc = "filter"
    /\ filtered' = SelectSeq(input,
                      LAMBDA a : /\ a.next_action_time <= today + Days(Days90)
                                 /\ a.last_action_time < today - Days(Days7))
    /\ pc' = "dedup"
    /\ UNCHANGED <<clock, ticks, payload, input, called, today, threshold_90,
                   threshold_7, map, deduped, response, result, histVars>>

\* a filter that derives its thresholds from the clock when it runs
Filter_rereads ==
    /\ pc = "filter"
    /\ filtered' = FilterSeq(input, threshold_90_of(clock), threshold_7_of(clock))
    /\ pc' = "dedup"
    /\ UNCHANGED <<clock, ticks, payload, input, called, today, threshold_90,
                   threshold_7, map, deduped, response, result, histVars>>

\* process_actions: the two filters, collected
Filter ==
    /\ pc = "filter"
    /\ filtered' = FilterSeq(input, threshold_90, threshold_7)
    /\ pc' = "dedup"
    /\ UNCHANGED <<clock, ticks, payload, input, called, today, threshold_90,
                   threshold_7, map, deduped, response, result, histVars>>

\* process_actions: the insert loop
Dedup ==
    /\ pc = "dedup"
    /\ map' = DedupFrom(EmptyMap, filtered)
    /\ pc' = "values"
    /\ UNCHANGED <<clock, ticks, payload, input, called, today, threshold_90,
                   threshold_7, filtered, deduped, response, result, histVars>>

\* process_actions: map.into_values().cloned().collect()
IntoValues ==
    /\ pc = "values"
    /\ \E vs \in ValueOrders(map) : deduped' = vs
    /\ pc' = "sort"
    /\ UNCHANGED <<clock, ticks, payload, input, called, today, threshold_90,
                   threshold_7, filtered, map, response, result, histVars>>

\* process_actions: deduped.sort_by(...)
Sort ==
    /\ pc = "sort"
    /\ deduped' = SortByPriority(deduped)
    /\ pc' = "return"
    /\ UNCHANGED <<clock, ticks, payload, input, called, today, threshold_90,
                   threshold_7, filtered, map, response, result, histVars>>

\* filter_actions: Ok(json!(actions))
Return ==
    /\ pc = "return"
    /\ response' = to_json(deduped)
    /\ result' = "ok"
    /\ pc' = "done"
    /\ UNCHANGED <<clock, ticks, payload, input, called, today, threshold_90,
                   threshold_7, filtered, map, deduped, histVars>>

Step == Decode \/ ReadClock \/ Filter \/ Dedup \/ IntoValues \/ Sort \/ Return

Next == Tick \/ Invoke \/ Respond \/ Resubmit \/ Step

Spec == Init /\ [][Next]_vars

\* the runtime runs a handler it has started to completion
FairSpec == Spec /\ WF_vars(Step)

\* ------------------------------------------------------------ properties
Finished == pc = "done"

\* input[i] is the only record of its entity in the decoded input
Sole(i) == \A j \in DOMAIN input : input[j].entity_id = input[i].entity_id => j = i

\* the record is part of what process_actions returned
Retained(a) == a \in Range(deduped)

\* the instant-level 90-day window, independent of calendar dates
InsideNextWindow(a) == a.next_action_time <= today + Days(90)

\* the instant-level 7-day window with a day to spare
OldEnough(a) == a.last_action_time <= today - Days(8)

\* 00:00 UTC of the calendar date of instant t
Midnight(t) == (t \div SecsPerDay) * SecsPerDay

LastSecondOfDay(t) == t % SecsPerDay = SecsPerDay - 1

C2_NinetyDayBoundToTheSecond ==
    Finished =>
        \A i \in DOMAIN input :
            (Sole(i) /\ OldEnough(input[i])) =>
                /\ input[i].next_action_time = today + Days(90) => Retained(input[i])
                /\ input[i].next_action_time = today + Days(90) + 1 => ~Retained(input[i])
                /\ input[i].next_action_time = today + Days(91) => ~Retained(input[i])

\* C2 amended: with last_action_time old enough, a record whose
\* next_action_time is exactly now + 90 days is retained and one 91 days out
\* is excluded; one at now + 90 days + 1 second is excluded only when now is
\* the last second of a UTC day (so that the extra second falls on the next
\* calendar date), and is retained otherwise.
C2_NinetyDayDateBound ==
    Finished =>
        \A i \in DOMAIN input :
            (Sole(i) /\ OldEnough(input[i])) =>
                /\ input[i].next_action_time = today + Days(90) => Retained(input[i])
                /\ input[i].next_action_time = today + Days(91) => ~Retained(input[i])
                /\ input[i].next_action_time = today + Days(90) + 1 =>
                       (Retained(input[i]) <=> ~LastSecondOfDay(today))

C2_Witness ==
    /\ Finished
    /\ \E i \in DOMAIN input :
           /\ Sole(i) /\ OldEnough(input[i])
           /\ input[i].next_action_time = today + Days(90) + 1
           /\ Retained(input[i])

Passes(a) ==
    /\ a.next_action_time < Midnight(today + Days(90)) + SecsPerDay
    /\ a.last_action_time < Midnight(today - Days(7))

EntityIds(records) == {r.entity_id : r \in records}

\* C4: the output holds no two records with the same entity_id, and the
\* entity_ids of the output are exactly the entity_ids of the input records
\* that pass both time-window filters.
C4_DedupCardinality ==
    Finished =>
        /\ \A i, j \in DOMAIN deduped :
               deduped[i].entity_id = deduped[j].entity_id => i = j
        /\ EntityIds(Range(deduped)) = EntityIds({a \in Range(input) : Passes(a)})

C4_Witness ==
    /\ Finished
    /\ Len(deduped) = 1
    /\ \E i, j \in DOMAIN input :
           /\ i < j
           /\ input[i].entity_id = input[j].entity_id
           /\ input[i] # input[j]
           /\ Passes(input[i]) /\ Passes(input[j])

\* C5: when records sharing an entity_id pass the filters, the one output
\* record of that entity_id equals, in every field, the passing record that
\* comes last in input order; its priority is that record's own priority.
C5_LastWriteWins ==
    Finished =>
        \A i, j \in DOMAIN input :
            ( /\ i < j
              /\ input[i].entity_id = input[j].entity_id
              /\ Passes(input[i]) /\ Passes(input[j])
              /\ \A k \in DOMAIN input :
                     (k > j /\ input[k].entity_id = input[j].entity_id) => ~Passes(input[k]) )
            => \A r \in Range(deduped) :
                   r.entity_id = input[j].entity_id =>
                       /\ r = input[j]
                       /\ r.priority = input[j].priority

C5_Witness ==
    /\ Finished
    /\ \E i, j \in DOMAIN input :
           /\ i < j
           /\ input[i].entity_id = input[j].entity_id
           /\ Passes(input[i]) /\ Passes(input[j])
           /\ input[i].priority = "Urgent" /\ input[j].priority = "Normal"
           /\ input[i].last_action_time # input[j].last_action_time
           /\ Retained(input[j])

\* C6: the output splits at some index k into Urgent records (positions up
\* to k) followed by Normal records; no Urgent record follows a Normal one.
C6_PartitionInvariant ==
    Finished =>
        \E k \in 0..Len(deduped) :
            \A n \in DOMAIN deduped :
                /\ n <= k => deduped[n].priority = "Urgent"
                /\ n > k => deduped[n].priority = "Normal"

C6_Witness ==
    /\ Finished
    /\ Len(deduped) >= 2
    /\ \E m, n \in DOMAIN deduped :
           deduped[m].priority = "Urgent" /\ deduped[n].priority = "Normal"
    /\ \E i, j \in DOMAIN input :
           i < j /\ input[i].priority = "Normal" /\ input[j].priority = "Urgent"

\* C7: once a request holding a record whose priority is not exactly
\* "urgent" or "normal" has been decoded, the request has failed as a whole:
\* the outcome is an error, process_actions was never entered and no list,
\* partial or otherwise, is returned.
C7_DecodeFailureRejectsRequest ==
    ( /\ pc \notin {"idle", "decode"}
      /\ \E i \in DOMAIN payload : payload[i].priority \notin {"urgent", "normal"} )
    => /\ pc = "failed"
       /\ result = "err"
       /\ ~called
       /\ input = <<>> /\ deduped = <<>> /\ response = <<>>

C7_Witness ==
    /\ pc = "failed"
    /\ \E i, j \in DOMAIN payload :
           /\ payload[i].priority \in {"urgent", "normal"}
           /\ payload[j].priority = "URGENT"

\* C8: process_actions is total: every call that is entered returns, the
\* return is never an error, and the empty input yields the empty output.
C8_Total ==
    /\ [](Finished => (result = "ok" /\ (input = <<>> => deduped = <<>>)))
    /\ (pc = "call") ~> Finished

C8_Witness ==
    /\ Finished
    /\ called
    /\ input = <<>>
    /\ deduped = <<>>

\* the Urgent-before-Normal order of the output
Partitioned(s) ==
    \A m, n \in DOMAIN s : (m < n /\ s[m].priority = "Normal") => s[n].priority = "Normal"

\* C9: when the output of a call is processed again at the same evaluation
\* instant, the second output holds exactly the records of the first, none
\* removed, and is still ordered Urgent before Normal.
C9_Idempotent ==
    (Finished /\ resubmitted /\ today = prevToday) =>
        /\ Range(deduped) = Range(prevOutput)
        /\ Len(deduped) = Len(prevOutput)
        /\ Partitioned(deduped)

C9_Witness ==
    /\ Finished /\ resubmitted /\ today = prevToday
    /\ Len(prevOutput) = 2
    /\ prevOutput[1].priority # prevOutput[2].priority

Horizon == 100       \* days after the call at which its output is measured

\* C10: measured at the current instant or any number of days later, every
\* returned record has at least 7 whole days since its last_action_time and
\* at most 90 whole days until its next_action_time.
C10_WholeDayWindows ==
    Finished =>
        \A a \in Range(deduped) :
            \A d \in 0..Horizon :
                LET t == clock + Days(d)
                IN /\ t >= today
                   /\ num_days(t - a.last_action_time) >= 7
                   /\ num_days(a.next_action_time - t) <= 90

C10_Witness ==
    /\ Finished
    /\ \E a \in Range(deduped) :
           /\ a.next_action_time - clock > Days(90)
           /\ num_days(a.next_action_time - clock) = 90

\* C11: every record of the output equals, in all four fields, some record
\* of the input, and the output is never longer than the input.
C11_WholeRecordsOnly ==
    Finished =>
        /\ \A r \in Range(deduped) :
               \E i \in DOMAIN input :
                   /\ r.entity_id = input[i].entity_id
                   /\ r.last_action_time = input[i].last_action_time
                   /\ r.next_action_time = input[i].next_action_time
                   /\ r.priority = input[i].priority
        /\ Len(deduped) <= Len(input)

C11_Witness ==
    /\ Finished
    /\ Len(deduped) = 1
    /\ Len(input) = 2
    /\ input[1].entity_id = input[2].entity_id
    /\ Passes(input[1]) /\ Passes(input[2])
    /\ input[1].priority = "Urgent" /\ input[2].priority = "Normal"

\* C12: when the last record of an entity_id fails a filter and an earlier
\* record of the same entity_id passes, the output holds the latest passing
\* record of that entity_id; the failing later record does not evict it.
C12_DedupAfterFilter ==
    Finished =>
        \A i, j \in DOMAIN input :
            ( /\ i < j
              /\ input[i].entity_id = input[j].entity_id
              /\ Passes(input[i])
              /\ \A k \in DOMAIN input :
                     (k > i /\ input[k].entity_id = input[i].entity_id) => ~Passes(input[k]) )
            => /\ Retained(input[i])
               /\ \A r \in Range(deduped) :
                      r.entity_id = input[i].entity_id => r = input[i]

C12_Witness ==
    /\ Finished
    /\ \E i, j \in DOMAIN input :
           /\ i < j
           /\ input[i].entity_id = input[j].entity_id
           /\ Passes(input[i]) /\ ~Passes(input[j])
           /\ Retained(input[i])
           /\ ~Retained(input[j])

\* passes both time-window filters when judged at instant t
PassesAt(a, t) ==
    /\ a.next_action_time < Midnight(t + Days(90)) + SecsPerDay
    /\ a.last_action_time < Midnight(t - Days(7))

Examining == {"filter", "dedup", "values", "sort", "return"}

\* a step taken while records are examined leaves the reading as it is
KeepsReading ==
    pc \in Examining =>
        (today' = today /\ threshold_90' = threshold_90 /\ threshold_7' = threshold_7)

\* C13: within one call the evaluation instant is read once: from the first
\* record examined to the return, today and both thresholds stay as they
\* were derived from that one reading, and every record of the input is kept
\* or dropped by those thresholds, however far the clock has moved on.
C13_SingleClockReading ==
    /\ []( pc \in Examining \cup {"done"} =>
             /\ called
             /\ today <= clock
             /\ threshold_90 = date_naive(today + Days(90))
             /\ threshold_7 = date_naive(today - Days(7)) )
    /\ []( pc \in (Examining \ {"filter"}) \cup {"done"} =>
             \A i \in DOMAIN input :
                 (input[i] \in Range(filtered)) <=> PassesAt(input[i], today) )
    /\ [][KeepsReading]_vars

C13_Witness ==
    /\ pc = "dedup"
    /\ clock > today
    /\ \E i, j \in DOMAIN input :
           /\ i < j
           /\ PassesAt(input[i], clock) /\ PassesAt(input[j], clock)
           /\ ~PassesAt(input[i], today) /\ PassesAt(input[j], today)
           /\ input[i] \notin Range(filtered)
           /\ input[j] \in Range(filtered)

\* the position of record r in sequence s (records of one map are distinct)
PosIn(s, r) == CHOOSE n \in DOMAIN s : s[n] = r

\* the sort step keeps the records, puts Urgent before Normal, and leaves
\* records of equal priority in the order the map yielded them
SortIsStable ==
    (pc = "sort" /\ pc' = "return") =>
        /\ Range(deduped') = Range(deduped)
        /\ Len(deduped') = Len(deduped)
        /\ Partitioned(deduped')
        /\ \A m, n \in DOMAIN deduped :
               (m < n /\ deduped[m].priority = deduped[n].priority) =>
                   PosIn(deduped', deduped[m]) < PosIn(deduped', deduped[n])

\* C14: the final sort is stable and keyed on priority alone: two records
\* of equal priority leave the sort in the relative order in which the map
\* yielded them, whatever their next_action_time and input position; only
\* the Urgent-before-Normal partition is fixed.
C14_StableSortOnPriority == [][SortIsStable]_vars

\* two records of equal priority returned against both their input order and
\* their next_action_time order
C14_Witness ==
    /\ pc = "return"
    /\ Len(deduped) = 2
    /\ Len(input) = 2
    /\ deduped[1].priority = deduped[2].priority
    /\ deduped[1] = input[2] /\ deduped[2] = input[1]
    /\ deduped[1].next_action_time > deduped[2].next_action_time

Inverted(a) == a.last_action_time > a.next_action_time

NextWindowOk(a) == a.next_action_time < Midnight(today + Days(90)) + SecsPerDay

LastWindowOk(a) == a.last_action_time < Midnight(today - Days(7))

\* C15: a record whose last_action_time is later than its next_action_time
\* is retained exactly when it satisfies the two window predicates; and two
\* records that agree on each window predicate are both kept or both
\* dropped, whether their timestamps are inverted or not.
C15_InvertedTimestampsAsGiven ==
    Finished =>
        \A i \in DOMAIN input :
            Sole(i) =>
                /\ Inverted(input[i]) =>
                       (Retained(input[i]) <=>
                            (NextWindowOk(input[i]) /\ LastWindowOk(input[i])))
                /\ \A j \in DOMAIN input :
                       ( /\ Sole(j)
                         /\ NextWindowOk(input[i]) <=> NextWindowOk(input[j])
                         /\ LastWindowOk(input[i]) <=> LastWindowOk(input[j]) )
                       => (Retained(input[i]) <=> Retained(input[j]))

C15_Witness ==
    /\ Finished
    /\ \E i, j \in DOMAIN input :
           /\ Sole(i) /\ Sole(j)
           /\ Inverted(input[i]) /\ ~Inverted(input[j])
           /\ input[i].last_action_time = input[j].last_action_time
           /\ Retained(input[i]) /\ Retained(input[j])

\* an inverted record that the 7-day window excludes
C15_WitnessExcluded ==
    /\ Finished
    /\ \E i \in DOMAIN input :
           Sole(i) /\ Inverted(input[i]) /\ ~Retained(input[i])

\* the keep/exclude decision as a function of three UTC calendar dates
DateDecision(lastDate, nextDate, nowDate) ==
    /\ nextDate <= nowDate + 90
    /\ lastDate < nowDate - 7

SameDates(a, b) ==
    /\ date_naive(a.last_action_time) = date_naive(b.last_action_time)
    /\ date_naive(a.next_action_time) = date_naive(b.next_action_time)

Filtered == {"dedup", "values", "sort", "return", "done"}

\* C17: the clock never runs backwards, and a record that passed both
\* window filters in one call passes them again in a later call: every record
\* of a response that is sent back in survives the filters of the second
\* call and is returned, however much later that call is evaluated; judged
\* by the window predicates, a returned record still passes at the current
\* instant and any number of days after it.
C17_MonotoneInTime ==
    /\ resubmitted => today = 0 \/ today >= prevToday
    /\ (pc \in Filtered /\ resubmitted) =>
           \A a \in Range(prevOutput) : a \in Range(filtered)
    /\ (Finished /\ resubmitted) => Range(deduped) = Range(prevOutput)
    /\ Finished =>
           \A a \in Range(deduped) :
               \A d \in 0..Horizon : PassesAt(a, clock + Days(d))

C17_Witness ==
    /\ Finished /\ resubmitted
    /\ date_naive(today) > date_naive(prevToday)
    /\ Len(prevOutput) = 2
    /\ Range(deduped) = Range(prevOutput)

TypeOK ==
    /\ pc \in {"idle", "decode", "call", "filter", "dedup", "values", "sort",
               "return", "done", "failed"}
    /\ result \in {"none", "ok", "err"}
    /\ clock = T0 + ticks
====
